---- MODULE Spec2Model ----
(***************************************************************************)
(* Model of the phased batch scheduler of ContinuousTourOperatorAnalyzer   *)
(* (src/continuous_analyzer.py): continuous_process, process_batch and the *)
(* analyze_with_semaphore tasks it gathers, over a small table of rows.    *)
(*                                                                         *)
(* The settings tables carry the source's fields that drive the scheduler  *)
(* (concurrency, batch_size, delay_between_batches, max_pages_per_site);   *)
(* concurrency and                                                         *)
(* batch_size are scaled down to the size of the modelled table, so that   *)
(* every phase can need several batches, crawls run side by side in the    *)
(* Aggressive phase, and the batches of the retry phases hold more tasks   *)
(* than the semaphore has slots.                                           *)
(*                                                                         *)
(* Specifications: Spec and FairSpec (one run), ResumeSpec (a run, its     *)
(* end or crash, and the next run over the file it wrote), UrlSpec (any    *)
(* URL cells), CrawlSpec (one analyze_website call), LoadSpec (loading a   *)
(* file), ExtractSpec (analyze_page_content and the classification),       *)
(* AggregateSpec (folding the page results of a crawl), ConfigSpec (the    *)
(* settings __init__ builds, with the source's values), NetworkSpec        *)
(* (_analyze_network_requests) and ClassifierFairSpec (the batch loop of   *)
(* process_chatbot_companies in src/chatbot_classifier.py).                *)
(***************************************************************************)
EXTENDS Integers, Sequences, FiniteSets, TLC

\* ------------------------------------------------------------------ bounds
NumRows == 3
AggressiveConcurrency == 2
AggressiveBatch == 2
ConservativeConcurrency == 1
ConservativeBatch == 2
PatientConcurrency == 1
PatientBatch == 2

MaxNavLinks == 2
\* pages in the sequence of page results of one crawl, the root included
MaxSitePages == 3
\* largest ram_gb an analyzer is constructed with
MaxRamGb == 64
\* resource-timing entries of one page
MaxRequests == 3
\* batch_size of process_chatbot_companies
ClassifierBatch == 2

\* ------------------------------------------------------ program constants
AggressiveMaxPages == 3
ConservativeMaxPages == 5
PatientMaxPages == 7
\* delay_between_batches of the three settings, in seconds (ram_gb >= 32)
AggressiveDelay == 30
ConservativeDelay == 60
PatientDelay == 120
\* line 787: a snapshot is due at multiples of batch_size * 5
BackupBatches == 5

Rows == 1..NumRows

\* ------------------------------------------------------------- vocabulary
NA == "NA"
COMPLETED == "COMPLETED"
FAILED == "FAILED"
INVALID_URL == "INVALID_URL"
None == "None"

\* output_csv does not exist: a table without rows
NoFile == <<>>

\* no run came before this one
NoRun == [rows |-> <<>>, ended |-> "none"]

aggressive_settings ==
    [concurrency |-> AggressiveConcurrency, batch_size |-> AggressiveBatch,
     delay_between_batches |-> AggressiveDelay,
     max_pages_per_site |-> AggressiveMaxPages]
conservative_settings ==
    [concurrency |-> ConservativeConcurrency, batch_size |-> ConservativeBatch,
     delay_between_batches |-> ConservativeDelay,
     max_pages_per_site |-> ConservativeMaxPages]
patient_settings ==
    [concurrency |-> PatientConcurrency, batch_size |-> PatientBatch,
     delay_between_batches |-> PatientDelay,
     max_pages_per_site |-> PatientMaxPages]

VARIABLES
    pc,               \* position of continuous_process / process_batch
    stage,            \* which of the three while loops (769, 803, 832) runs
    url_column,       \* TRUE iff the table has one of the url_columns headers
    url,              \* the URL cell of every row, see UrlCells
    df,               \* the table: analysis_status and has_chatbot per row
    current_settings, \* self.current_settings
    stats_phase,      \* self.stats['phase']
    unprocessed,      \* the list `unprocessed`
    pool,             \* failed_companies / still_failed of the retry phase
    batch_indices,    \* the list `batch_indices` of the running batch
    tasks,            \* per row: its analyze_with_semaphore coroutine
    semaphore,        \* free slots of the batch's asyncio.Semaphore
    disk,             \* the table last written to output_csv, or NoFile
    checkpointed,     \* TRUE iff the running batch has been written to disk
    attempts,         \* per row and stage: how its crawl of that stage ended
    crawl,            \* the frame of one analyze_website call, step by step
    crawl_row,        \* the table row that call's task writes
    exit,             \* how continuous_process left: "none" while it runs
    backup,           \* the last backup_progress snapshot
    previous,         \* what the run before left of every row, or NoRun
    stats,            \* self.stats['completed'] and self.stats['failed']
    sleep_delay,      \* seconds of the asyncio.sleep the loop is in, else 0
    load_frame,       \* a CSV file and the table continuous_process loads
    page_content,     \* a page's content and what analyze_page_content finds
    site_pages,       \* the page results of one crawl and their aggregate
    analyzer,         \* an analyzer object: ram_gb and its settings dicts
    network_analysis, \* a page's request URLs and _analyze_network_requests
    chatbot_companies \* the table and loop of process_chatbot_companies

vars == <<pc, stage, url_column, url, df, current_settings, stats_phase,
          unprocessed, pool, batch_indices, tasks, semaphore, disk,
          checkpointed, attempts, crawl, crawl_row, exit, backup, previous,
          stats, sleep_delay, load_frame, page_content, site_pages, analyzer,
          network_analysis, chatbot_companies>>

sched_vars == <<pc, stage, url_column, url, df, stats_phase, unprocessed, pool,
                batch_indices, tasks, semaphore, disk, checkpointed, attempts,
                exit, backup, previous, stats, sleep_delay>>

\* the variables of the specifications of single functions
pure_vars == <<load_frame, page_content, site_pages, analyzer,
               network_analysis, chatbot_companies>>

\* stats['phase'] and current_settings of each stage (lines 764-765,
\* 795-796, 824-825)
PhaseOf(s) ==
    IF s = 1 THEN <<"Aggressive Processing", aggressive_settings>>
    ELSE IF s = 2 THEN <<"Conservative Retry", conservative_settings>>
    ELSE <<"Patient Processing", patient_settings>>

\* ---------------------------------------------------------------- helpers
Min(S) == CHOOSE x \in S : \A y \in S : x <= y

\* df[mask].index.tolist(): the indices of a row set in ascending order
RECURSIVE IndexList(_)
IndexList(S) ==
    IF S = {} THEN <<>> ELSE <<Min(S)>> \o IndexList(S \ {Min(S)})

\* the slice lst[:n]
Take(lst, n) == SubSeq(lst, 1, IF Len(lst) < n THEN Len(lst) ELSE n)

Range(lst) == {lst[i] : i \in 1..Len(lst)}

\* df[df['analysis_status'] == s].index
RowsWithStatus(s) == {r \in Rows : df[r].analysis_status = s}

\* what a URL cell can hold: a URL, nothing (empty, NaN), or a text that
\* is no URL (blanks only, "n/a", "no website")
UrlCells == {"valid", "missing", "unparseable"}

\* clean_url (lines 640-647): None for a missing cell; any other cell is
\* stripped, prefixed with https:// and returned
clean_url(u) == IF u = "missing" THEN None ELSE "https"

\* len(df[df['analysis_status'] == 'COMPLETED'])
NumCompleted == Cardinality(RowsWithStatus(COMPLETED))

\* self.stats as __init__ leaves it (lines 128-131)
NoStats == [completed |-> 0, failed |-> 0]

\* `df['has_chatbot'].str.contains('Error', na=False)` on a cell
ContainsError(cell) == cell = "Error"

\* update_statistics (lines 663-666): both counters are taken from the
\* has_chatbot column
update_statistics(table) ==
    [completed |->
         Cardinality({r \in Rows : /\ table[r].has_chatbot # NA
                                   /\ ~ContainsError(table[r].has_chatbot)}),
     failed |->
         Cardinality({r \in Rows : ContainsError(table[r].has_chatbot)})]

\* no backup file written yet
NoBackup == [name |-> None, completed |-> 0, parity |-> 0]

\* backup_progress (lines 649-653): a new snapshot file of the whole table;
\* of a snapshot the model keeps its name, the number of COMPLETED rows in
\* it, and the parity of the number of snapshots taken so far
backup_progress(backup_name) ==
    [name |-> backup_name, completed |-> NumCompleted,
     parity |-> 1 - backup.parity]

\* the condition of line 787
BackupDue ==
    NumCompleted % (current_settings.batch_size * BackupBatches) = 0

\* lines 786-788, which only the loop of phase 1 has
AfterBatchBackup ==
    IF stage = 1 /\ BackupDue THEN backup_progress("phase1_progress")
    ELSE backup

InFlight == {r \in Rows : tasks[r] = "running"}
Waiting == {r \in Rows : tasks[r] = "waiting"}

\* analyze_website lines 556-563: the empty all_results
EmptyResults ==
    [has_chatbot |-> FALSE, chatbot_types |-> {}, booking_technology |-> {},
     ota_dependencies |-> {}, has_online_booking |-> FALSE,
     pages_analyzed |-> 0]

IdleCrawl ==
    [pc |-> "idle", all_results |-> EmptyResults, pages_to_check |-> <<>>,
     to_check |-> {}, pages_checked |-> 0, visited |-> <<>>,
     root_error |-> FALSE]

\* the result columns of a row no run has written (lines 755-757); an unset
\* tag column is the empty set of texts, an unset pages_analyzed is -1
FreshRow ==
    [analysis_status |-> NA, has_chatbot |-> NA, chatbot_types |-> {},
     booking_technology |-> {}, ota_dependencies |-> {},
     prospect_evaluation |-> NA, pages_analyzed |-> -1,
     has_online_booking |-> NA]

\* ------------------------------------------------------------------- Init
\* Each function that is checked on its own has a variable for its frame;
\* the frame is None in the specifications of the other functions.
OnlyRuns(function) ==
    /\ IF function = "load" THEN TRUE ELSE load_frame = None
    /\ IF function = "analyze_page_content" THEN TRUE
       ELSE page_content = None
    /\ IF function = "aggregate" THEN TRUE ELSE site_pages = None
    /\ IF function = "__init__" THEN TRUE ELSE analyzer = None
    /\ IF function = "_analyze_network_requests" THEN TRUE
       ELSE network_analysis = None
    /\ IF function = "process_chatbot_companies" THEN TRUE
       ELSE chatbot_companies = None

\* A table as pd.read_csv can load it: fresh rows, or rows an earlier run
\* of this program wrote (COMPLETED, FAILED with its error text, INVALID_URL,
\* or a FAILED row that a retry phase had reset when the table was written).
LoadedRow ==
    { <<"valid", [analysis_status |-> NA, has_chatbot |-> NA]>>,
      <<"valid", [analysis_status |-> NA, has_chatbot |-> "Error"]>>,
      <<"missing", [analysis_status |-> NA, has_chatbot |-> NA]>>,
      <<"valid", [analysis_status |-> COMPLETED, has_chatbot |-> "No"]>>,
      <<"valid", [analysis_status |-> FAILED, has_chatbot |-> "Error"]>>,
      <<"missing", [analysis_status |-> INVALID_URL,
                    has_chatbot |-> "Invalid URL"]>> }

Init ==
    /\ pc = "start"
    /\ stage = 1
    /\ url_column \in BOOLEAN
    /\ \E t \in [Rows -> LoadedRow] :
          /\ url = [r \in Rows |-> t[r][1]]
          /\ df = [r \in Rows |-> t[r][2]]
    /\ current_settings = aggressive_settings
    /\ stats_phase = "Aggressive Processing"
    /\ unprocessed = <<>>
    /\ pool = {}
    /\ batch_indices = <<>>
    /\ tasks = [r \in Rows |-> "none"]
    /\ semaphore = 0
    /\ disk = NoFile
    /\ checkpointed = FALSE
    /\ attempts = [r \in Rows |-> [s \in 1..3 |-> "none"]]
    /\ crawl = IdleCrawl
    /\ crawl_row = FreshRow
    /\ exit = "none"
    /\ backup = NoBackup
    /\ previous = NoRun
    /\ stats = NoStats
    /\ sleep_delay = 0
    /\ OnlyRuns("continuous_process")

\* ------------------------------------------------------ continuous_process
InitialPoolEveryRow == Rows

InitialPoolWithFailed == RowsWithStatus(NA) \cup RowsWithStatus(FAILED)

\* line 767: df[df['analysis_status'].isna()].index
InitialPool == RowsWithStatus(NA)

\* lines 741-767: load, initial backup, the Aggressive settings, first pool
Start ==
    /\ pc = "start"
    /\ backup' = backup_progress("initial")
    /\ stats_phase' = "Aggressive Processing"
    /\ current_settings' = aggressive_settings
    /\ unprocessed' = IndexList(InitialPool)
    /\ pc' = "loop"
    /\ UNCHANGED <<stage, url_column, url, df, pool, batch_indices, tasks,
                   semaphore, disk, checkpointed, attempts,
                   crawl, crawl_row, exit, previous, pure_vars,
                   stats, sleep_delay>>

LoopStopsOneEarly == Len(unprocessed) > 1

\* the while conditions of lines 769, 803, 832
LoopContinues == unprocessed # <<>>

\* unprocessed[:batch_size]
NextBatch == Take(unprocessed, current_settings.batch_size)

\* process_batch lines 672-678: no URL column, return before any work
ProcessBatchNoUrlColumn ==
    /\ pc = "loop"
    /\ LoopContinues
    /\ ~url_column
    /\ batch_indices' = NextBatch
    /\ checkpointed' = FALSE
    /\ pc' = "recompute"
    /\ UNCHANGED <<stage, url_column, url, df, current_settings, stats_phase,
                   unprocessed, pool, tasks, semaphore, disk, attempts,
                   crawl, crawl_row, exit, backup, previous, pure_vars,
                   stats, sleep_delay>>

\* lines 714-715: async_playwright() or chromium.launch raised; nothing in
\* process_batch or continuous_process catches it, the run is over
LaunchRaises ==
    /\ pc = "loop"
    /\ LoopContinues
    /\ url_column
    /\ batch_indices' = NextBatch
    /\ checkpointed' = FALSE
    /\ pc' = "aborted"
    /\ exit' = "BrowserError"
    /\ UNCHANGED <<stage, url_column, url, df, current_settings, stats_phase,
                   unprocessed, pool, tasks, semaphore, disk, attempts,
                   crawl, crawl_row, backup, previous, pure_vars,
                   stats, sleep_delay>>

\* the rows of a batch for which a task is created (line 721)
Dispatched(batch) == {r \in Range(batch) : clean_url(url[r]) # None}

\* process_batch lines 681-729: new semaphore, one task per row with a URL,
\* INVALID_URL written for the others, then gather (or nothing to gather)
Dispatch ==
    /\ pc = "loop"
    /\ LoopContinues
    /\ url_column
    /\ batch_indices' = NextBatch
    /\ semaphore' = current_settings.concurrency
    /\ tasks' = [r \in Rows |->
                   IF r \in Dispatched(NextBatch) THEN "waiting" ELSE "none"]
    /\ df' = [r \in Rows |->
                IF r \in Range(NextBatch) \ Dispatched(NextBatch)
                THEN [analysis_status |-> INVALID_URL,
                      has_chatbot |-> "Invalid URL"]
                ELSE df[r]]
    /\ checkpointed' = FALSE
    /\ pc' = IF Dispatched(NextBatch) # {} THEN "gather" ELSE "checkpoint"
    /\ UNCHANGED <<stage, url_column, url, current_settings, stats_phase,
                   unprocessed, pool, disk, attempts,
                   crawl, crawl_row, exit, backup, previous, pure_vars,
                   stats, sleep_delay>>

CanAcquireAlways == TRUE

\* `async with semaphore` entry (line 684): a slot must be free
CanAcquire == semaphore > 0

Acquire(r) ==
    /\ pc = "gather"
    /\ tasks[r] = "waiting"
    /\ CanAcquire
    /\ semaphore' = semaphore - 1
    /\ tasks' = [tasks EXCEPT ![r] = "running"]
    /\ UNCHANGED <<pc, stage, url_column, url, df, current_settings,
                   stats_phase, unprocessed, pool, batch_indices, disk,
                   checkpointed, attempts,
                   crawl, crawl_row, exit, backup, previous, pure_vars,
                   stats, sleep_delay>>

ReleaseOnSuccessOnly(raised) == IF raised THEN semaphore ELSE semaphore + 1

\* `async with semaphore` exit: the slot count after the body left,
\* normally or through the except branch
SemaphoreAfterExit(raised) == semaphore + 1

\* the status written by the try branch (line 703)
StatusOnReturn == COMPLETED

WriteBatchRows(table, index, row) ==
    [r \in Rows |-> IF r \in Range(batch_indices) THEN row ELSE table[r]]

\* `df.loc[index, column] = value` (lines 689-703, 709-711): the cells of
\* the row with this index label
WriteRow(table, index, row) == [table EXCEPT ![index] = row]

\* lines 686-705: analyze_website returned, the row is written
TaskReturn(r, hc) ==
    /\ pc = "gather"
    /\ tasks[r] = "running"
    /\ df' = WriteRow(df, r, [analysis_status |-> StatusOnReturn,
                              has_chatbot |-> hc])
    /\ tasks' = [tasks EXCEPT ![r] = "done"]
    /\ semaphore' = SemaphoreAfterExit(FALSE)
    /\ attempts' = [attempts EXCEPT ![r][stage] = "returned"]
    /\ UNCHANGED <<pc, stage, url_column, url, current_settings, stats_phase,
                   unprocessed, pool, batch_indices, disk, checkpointed,
                   crawl, crawl_row, exit, backup, previous, pure_vars,
                   stats, sleep_delay>>

\* lines 707-712: analyze_website raised, the except branch writes the row
TaskRaise(r) ==
    /\ pc = "gather"
    /\ tasks[r] = "running"
    /\ df' = WriteRow(df, r, [analysis_status |-> FAILED,
                              has_chatbot |-> "Error"])
    /\ tasks' = [tasks EXCEPT ![r] = "done"]
    /\ semaphore' = SemaphoreAfterExit(TRUE)
    /\ attempts' = [attempts EXCEPT ![r][stage] = "raised"]
    /\ UNCHANGED <<pc, stage, url_column, url, current_settings, stats_phase,
                   unprocessed, pool, batch_indices, disk, checkpointed,
                   crawl, crawl_row, exit, backup, previous, pure_vars,
                   stats, sleep_delay>>

GatherFirstCompleted == \E r \in Rows : tasks[r] = "done"

\* asyncio.gather(*tasks) returns (line 729): every task has finished
GatherDone == \A r \in Rows : tasks[r] \in {"none", "done"}

Join ==
    /\ pc = "gather"
    /\ GatherDone
    /\ pc' = "checkpoint"
    /\ UNCHANGED <<stage, url_column, url, df, current_settings, stats_phase,
                   unprocessed, pool, batch_indices, tasks, semaphore, disk,
                   checkpointed, attempts,
                   crawl, crawl_row, exit, backup, previous, pure_vars,
                   stats, sleep_delay>>

BatchRowsWritten == [r \in Range(batch_indices) |-> df[r]]

\* df.to_csv(output_csv, index=False), line 733: every row of the table
TableWritten == df

\* lines 732-734: df.to_csv(output_csv), process_batch returns and its
\* locals (the semaphore, the finished coroutines) are dropped
Checkpoint ==
    /\ pc = "checkpoint"
    /\ disk' = TableWritten
    /\ checkpointed' = TRUE
    /\ tasks' = [r \in Rows |-> "none"]
    /\ semaphore' = 0
    /\ stats' = update_statistics(df)
    /\ pc' = "recompute"
    /\ UNCHANGED <<stage, url_column, url, df, current_settings, stats_phase,
                   unprocessed, pool, batch_indices, attempts,
                   crawl, crawl_row, exit, backup, previous, pure_vars,
                   sleep_delay>>

CheckpointErrorSwallowed == "recompute"

\* df.to_csv (line 733) raised: no handler in process_batch or in
\* continuous_process, the exception ends the run
AfterCheckpointError == "aborted"

\* line 733 raises: the file keeps what it held, the run is over
CheckpointFails ==
    /\ pc = "checkpoint"
    /\ pc' = AfterCheckpointError
    /\ exit' = "PersistenceError"
    /\ tasks' = [r \in Rows |-> "none"]
    /\ semaphore' = 0
    /\ UNCHANGED <<stage, url_column, url, df, current_settings, stats_phase,
                   unprocessed, pool, batch_indices, disk, checkpointed,
                   attempts, crawl, crawl_row, backup, previous, pure_vars,
                   stats, sleep_delay>>

StillUnprocessedWholePool ==
    IF stage = 1 THEN RowsWithStatus(NA) ELSE pool

\* lines 779, 813, 842: the rows still to process in this phase
StillUnprocessed ==
    IF stage = 1 THEN RowsWithStatus(NA) ELSE pool \cap RowsWithStatus(NA)

SleepAfterEveryBatch == TRUE

\* lines 782, 816, 844: `if unprocessed:` / `if still_failed:` on the list
\* just recomputed
SleepDue == StillUnprocessed # {}

\* the pool is recomputed; with rows left the loop sleeps (line 782), with
\* none it goes on to the backup check of lines 786-788 at once
Recompute ==
    /\ pc = "recompute"
    /\ unprocessed' = IndexList(StillUnprocessed)
    /\ pc' = IF SleepDue THEN "sleep" ELSE "loop"
    /\ sleep_delay' =
          IF SleepDue THEN current_settings.delay_between_batches ELSE 0
    /\ backup' = IF SleepDue THEN backup ELSE AfterBatchBackup
    /\ UNCHANGED <<stage, url_column, url, df, current_settings, stats_phase,
                   pool, batch_indices, tasks, semaphore, disk, checkpointed,
                   attempts,
                   crawl, crawl_row, exit, previous, pure_vars, stats>>

\* lines 784, 817, 845: asyncio.sleep(delay_between_batches) is over, then
\* the backup check of lines 786-788
Wake ==
    /\ pc = "sleep"
    /\ pc' = "loop"
    /\ sleep_delay' = 0
    /\ backup' = AfterBatchBackup
    /\ UNCHANGED <<stage, url_column, url, df, current_settings, stats_phase,
                   unprocessed, pool, batch_indices, tasks, semaphore, disk,
                   checkpointed, attempts,
                   crawl, crawl_row, exit, previous, pure_vars, stats>>

RetryWholePreviousPool ==
    IF stage = 1 THEN RowsWithStatus(FAILED)
    ELSE {r \in pool : df[r].analysis_status # INVALID_URL}

\* lines 791 and 820: the rows a retry phase takes up
RetryRows == RowsWithStatus(FAILED)

RetryPoolSkipsFirst(failed) == Tail(IndexList(failed))

\* lines 801 and 830: the first pool of a retry phase
RetryPool(failed) == IndexList(failed)

ResetEveryRow(r) == NA

\* lines 799 and 828: df.loc[failed, 'analysis_status'] = pd.NA
ResetStatus(r) == IF r \in RetryRows THEN NA ELSE df[r].analysis_status

\* lines 793-801 (stage 1) and 822-830 (stage 2): start the next retry phase
StartRetry(next, name, settings) ==
    /\ pc = "loop"
    /\ ~LoopContinues
    /\ stage = next - 1
    /\ RetryRows # {}
    /\ stage' = next
    /\ stats_phase' = name
    /\ current_settings' = settings
    /\ df' = [r \in Rows |-> [df[r] EXCEPT !.analysis_status = ResetStatus(r)]]
    /\ pool' = RetryRows
    /\ unprocessed' = RetryPool(RetryRows)
    /\ UNCHANGED <<pc, url_column, url, batch_indices, tasks, semaphore, disk,
                   checkpointed, attempts,
                   crawl, crawl_row, exit, backup, previous, pure_vars,
                   stats, sleep_delay>>

StartConservative == StartRetry(2, "Conservative Retry", conservative_settings)

StartPatient == StartRetry(3, "Patient Processing", patient_settings)

\* line 847: the last loop has ended and no retry phase is left to start
Finish ==
    /\ pc = "loop"
    /\ ~LoopContinues
    /\ (stage = 3 \/ RetryRows = {})
    /\ pc' = "done"
    /\ UNCHANGED <<stage, url_column, url, df, current_settings, stats_phase,
                   unprocessed, pool, batch_indices, tasks, semaphore, disk,
                   checkpointed, attempts,
                   crawl, crawl_row, exit, backup, previous, pure_vars,
                   stats, sleep_delay>>

\* print_final_report lines 850-885: line 885 divides by the number of
\* COMPLETED rows, and no condition guards it
ReportOutcome == IF NumCompleted = 0 THEN "ZeroDivisionError" ELSE "returned"

\* line 848: the final report (update_statistics at line 852);
\* continuous_process returns or raises
FinalReport ==
    /\ pc = "done"
    /\ exit = "none"
    /\ stats' = update_statistics(df)
    /\ exit' = ReportOutcome
    /\ UNCHANGED <<pc, stage, url_column, url, df, current_settings,
                   stats_phase, unprocessed, pool, batch_indices, tasks,
                   semaphore, disk, checkpointed, attempts,
                   crawl, crawl_row, backup, previous, pure_vars,
                   sleep_delay>>

Next ==
    \/ Start
    \/ ProcessBatchNoUrlColumn
    \/ LaunchRaises
    \/ Dispatch
    \/ \E r \in Rows : Acquire(r)
    \/ \E r \in Rows, hc \in {"Yes", "No"} : TaskReturn(r, hc)
    \/ \E r \in Rows : TaskRaise(r)
    \/ Join
    \/ Checkpoint
    \/ CheckpointFails
    \/ Recompute
    \/ Wake
    \/ StartConservative
    \/ StartPatient
    \/ Finish
    \/ FinalReport

Spec == Init /\ [][Next]_vars

\* ------------------------------------------------- a run and the next run
\* The process dies (killed, power loss) at any point of a run: its memory,
\* the table df included, is gone and is never read again; the files stay.
Crash ==
    /\ pc \notin {"aborted", "crashed"}
    /\ exit = "none"
    /\ previous = NoRun
    /\ pc' = "crashed"
    /\ tasks' = [r \in Rows |-> "none"]
    /\ semaphore' = 0
    /\ UNCHANGED <<stage, url_column, url, df, current_settings, stats_phase,
                   unprocessed, pool, batch_indices, disk, checkpointed,
                   attempts, crawl, crawl_row, exit, backup, previous,
                   pure_vars,
                   stats, sleep_delay>>

\* how the run that is over ended
Ended == IF pc = "crashed" THEN "crashed" ELSE exit

\* what the next run knows of a row: its status in the file it loads; the
\* model also keeps whether the row's crawl of phase 3 had raised
LeftOfRow(r) ==
    [analysis_status |-> disk[r].analysis_status,
     exhausted |-> attempts[r][3] = "raised"]

\* main (lines 927-965) is started again with the file the run before wrote
\* as its input: a new analyzer (lines 25-138), continuous_process from
\* line 741 on that file
Rerun ==
    /\ Ended # "none"
    /\ previous = NoRun
    /\ disk # NoFile
    /\ previous' = [rows |-> [r \in Rows |-> LeftOfRow(r)], ended |-> Ended]
    /\ df' = disk
    /\ pc' = "start"
    /\ stage' = 1
    /\ current_settings' = aggressive_settings
    /\ stats_phase' = "Aggressive Processing"
    /\ unprocessed' = <<>>
    /\ pool' = {}
    /\ batch_indices' = <<>>
    /\ tasks' = [r \in Rows |-> "none"]
    /\ semaphore' = 0
    /\ checkpointed' = FALSE
    /\ attempts' = [r \in Rows |-> [s \in 1..3 |-> "none"]]
    /\ exit' = "none"
    /\ backup' = NoBackup
    /\ stats' = NoStats
    /\ sleep_delay' = 0
    /\ UNCHANGED <<url_column, url, disk, crawl, crawl_row, pure_vars>>

ResumeNext ==
    \/ Next
    \/ Crash
    \/ Rerun

ResumeSpec == Init /\ [][ResumeNext]_vars

\* ------------------------------------------------------ any URL cells
\* continuous_process is about to start on a fresh table
BeforeRun ==
    /\ pc = "start"
    /\ stage = 1
    /\ df = [r \in Rows |-> [analysis_status |-> NA, has_chatbot |-> NA]]
    /\ current_settings = aggressive_settings
    /\ stats_phase = "Aggressive Processing"
    /\ unprocessed = <<>>
    /\ pool = {}
    /\ batch_indices = <<>>
    /\ tasks = [r \in Rows |-> "none"]
    /\ semaphore = 0
    /\ disk = NoFile
    /\ checkpointed = FALSE
    /\ attempts = [r \in Rows |-> [s \in 1..3 |-> "none"]]
    /\ crawl = IdleCrawl
    /\ crawl_row = FreshRow
    /\ exit = "none"
    /\ backup = NoBackup
    /\ previous = NoRun
    /\ stats = NoStats
    /\ sleep_delay = 0

\* the cells of the URL column are drawn from UrlCells
UrlInit ==
    /\ BeforeRun
    /\ url_column \in BOOLEAN
    /\ url \in [Rows -> UrlCells]
    /\ OnlyRuns("continuous_process")

UrlSpec == UrlInit /\ [][Next]_vars

\* ---------------------------------------------------- loading the table
\* A CSV file is a set of columns, each with a cell per row; a cell holds a
\* text or nothing.  Of the fifteen analysis_columns the model keeps three.
FileColumns ==
    {"Website URL", "has_chatbot", "prospect_evaluation", "analysis_status"}

\* lines 746-753
analysis_columns == {"has_chatbot", "prospect_evaluation", "analysis_status"}

Cells == {"", "text"}

CsvFiles == UNION {[cols -> [Rows -> Cells]] : cols \in SUBSET FileColumns}

\* pd.read_csv (line 741): the columns of the file, an empty cell read as
\* a missing value
read_csv(file) ==
    [c \in DOMAIN file |->
        [r \in Rows |-> IF file[c][r] = "" THEN NA ELSE file[c][r]]]

InitEveryColumn(t) ==
    [c \in DOMAIN t \cup analysis_columns |->
        IF c \in analysis_columns THEN [r \in Rows |-> NA] ELSE t[c]]

\* lines 755-757: `if col not in df.columns: df[col] = pd.NA`
InitColumns(t) ==
    [c \in DOMAIN t \cup analysis_columns |->
        IF c \in DOMAIN t THEN t[c] ELSE [r \in Rows |-> NA]]

LoadInit ==
    /\ BeforeRun
    /\ url_column = TRUE
    /\ url = [r \in Rows |-> "valid"]
    /\ \E f \in CsvFiles : load_frame = [file |-> f, df |-> f, loaded |-> FALSE]
    /\ OnlyRuns("load")

\* lines 741-757
LoadTable ==
    /\ ~load_frame.loaded
    /\ load_frame' = [load_frame EXCEPT
                        !.df = InitColumns(read_csv(load_frame.file)),
                        !.loaded = TRUE]
    /\ UNCHANGED <<sched_vars, current_settings, crawl, crawl_row,
                   page_content, site_pages, analyzer, network_analysis,
                   chatbot_companies>>

LoadSpec == LoadInit /\ [][LoadTable]_vars

\* The event loop runs a coroutine that is ready, and every crawl ends
\* (each navigation has a timeout): the program does not stop while a step
\* is possible.
FairSpec == Spec /\ WF_vars(Next)

\* -------------------------------------------------------- analyze_website
\* One call of analyze_website and the row write of its task, step by step.
\* A page is known by its URL: "root" is the site URL (a navigation link to
\* "/" resolves to it once the trailing slash is stripped).
LinkTargets == {"root", "/about", "/booking"}

\* what the href of a navigation link resolves to (line 591): a page of
\* the site or a page of another site
Hrefs == LinkTargets \cup {"other-site"}

\* line 592: the resolved URL is kept if its netloc is the site's
SameSite(target) == target # "other-site"

\* line 585; of the four fixed path guesses the model keeps two
important_pages == <<"/booking", "/book">>

\* one provider of each pattern table (lines 71-125)
ChatbotTags == {"zendesk"}
BookingTags == {"fareharbor"}
OtaTags == {"viator"}

\* analyze_page lines 461-470: the navigation raised, the error dict (its
\* has_chatbot is None, which no caller reads)
ErrorPage ==
    [error |-> TRUE, has_chatbot |-> FALSE, chatbot_types |-> {},
     booking_technology |-> {}, ota_dependencies |-> {},
     has_online_booking |-> FALSE]

\* analyze_page lines 439-459: the results of a page that loaded; every
\* tier that sets has_chatbot also adds a tag
LoadedPages ==
    {[error |-> FALSE, has_chatbot |-> c # {}, chatbot_types |-> c,
      booking_technology |-> b, ota_dependencies |-> o,
      has_online_booking |-> h] :
        c \in SUBSET ChatbotTags, b \in SUBSET BookingTags,
        o \in SUBSET OtaTags, h \in BOOLEAN}

PageOutcomes == LoadedPages \cup {ErrorPage}

\* lines 573-579: the main page folded into all_results
MergeMain(all, page) ==
    IF page.error THEN all
    ELSE [has_chatbot |-> page.has_chatbot,
          chatbot_types |-> all.chatbot_types \cup page.chatbot_types,
          booking_technology |->
              all.booking_technology \cup page.booking_technology,
          ota_dependencies |-> all.ota_dependencies \cup page.ota_dependencies,
          has_online_booking |-> page.has_online_booking,
          pages_analyzed |-> all.pages_analyzed + 1]

MergeAdditionalLastPageWins(all, page) ==
    IF page.error THEN all
    ELSE [all EXCEPT
            !.has_chatbot = page.has_chatbot,
            !.chatbot_types = all.chatbot_types \cup page.chatbot_types,
            !.booking_technology =
                all.booking_technology \cup page.booking_technology,
            !.ota_dependencies =
                all.ota_dependencies \cup page.ota_dependencies,
            !.pages_analyzed = all.pages_analyzed + 1]

\* lines 607-613: an additional page folded into all_results
MergeAdditional(all, page) ==
    IF page.error THEN all
    ELSE [all EXCEPT
            !.has_chatbot = all.has_chatbot \/ page.has_chatbot,
            !.chatbot_types = all.chatbot_types \cup page.chatbot_types,
            !.booking_technology =
                all.booking_technology \cup page.booking_technology,
            !.ota_dependencies =
                all.ota_dependencies \cup page.ota_dependencies,
            !.pages_analyzed = all.pages_analyzed + 1]

EvaluationByTechnologyOnly(analysis) ==
    IF ~analysis.has_chatbot
    THEN IF analysis.booking_technology # {}
         THEN IF analysis.ota_dependencies # {}
              THEN "HIGH-VALUE PROSPECT"
              ELSE "GOOD PROSPECT"
         ELSE "MEDIUM PROSPECT"
    ELSE "NOT A PROSPECT"

\* lines 379-395
_generate_prospect_evaluation(analysis) ==
    IF ~analysis.has_chatbot
    THEN IF analysis.booking_technology # {} \/ analysis.has_online_booking
         THEN IF analysis.ota_dependencies # {}
              THEN "HIGH-VALUE PROSPECT"
              ELSE "GOOD PROSPECT"
         ELSE "MEDIUM PROSPECT"
    ELSE "NOT A PROSPECT"

\* lines 691, 693, 695: '; '.join(tags) if tags else 'None detected'
Detailed(tags) == IF tags = {} THEN {"None detected"} ELSE tags

\* lines 689-703: the row a task writes when analyze_website returned
RowOnReturn(analysis) ==
    [analysis_status |-> COMPLETED,
     has_chatbot |-> IF analysis.has_chatbot THEN "Yes" ELSE "No",
     chatbot_types |-> Detailed(analysis.chatbot_types),
     booking_technology |-> Detailed(analysis.booking_technology),
     ota_dependencies |-> Detailed(analysis.ota_dependencies),
     prospect_evaluation |-> _generate_prospect_evaluation(analysis),
     pages_analyzed |-> analysis.pages_analyzed,
     has_online_booking |-> IF analysis.has_online_booking THEN "Yes" ELSE "No"]

\* lines 707-711: the row a task writes when analyze_website raised
RowOnRaise(row) ==
    [row EXCEPT !.analysis_status = FAILED, !.has_chatbot = "Error"]

\* lines 565-568: the browsing context and its page are created
NewContext ==
    /\ crawl.pc = "new_context"
    /\ crawl' = [crawl EXCEPT !.pc = "main_page"]
    /\ UNCHANGED <<sched_vars, pure_vars, current_settings, crawl_row>>

\* lines 565-568 raise: outside the try, the exception reaches the task
NewContextRaises ==
    /\ crawl.pc = "new_context"
    /\ crawl' = [crawl EXCEPT !.pc = "written"]
    /\ crawl_row' = RowOnRaise(crawl_row)
    /\ UNCHANGED <<sched_vars, pure_vars, current_settings>>

\* the step after the main page: line 582
AfterMainPage(page) ==
    IF current_settings.max_pages_per_site > 1 THEN "nav_links" ELSE "close"

\* lines 572-579: analyze_page on the site URL; it returns an error dict
\* when the navigation fails and never raises
MainPage(page) ==
    /\ crawl.pc = "main_page"
    /\ crawl' = [crawl EXCEPT
                   !.pc = AfterMainPage(page),
                   !.all_results = MergeMain(crawl.all_results, page),
                   !.visited = <<"root">>,
                   !.root_error = page.error]
    /\ UNCHANGED <<sched_vars, pure_vars, current_settings, crawl_row>>

\* nav_links[:5], each resolved against the site URL (lines 588-593)
NavLinkLists == UNION {[1..n -> Hrefs] : n \in 0..MaxNavLinks}

\* lines 587-597: the same-site links in document order, then the path
\* guesses
CandidateList(links) == SelectSeq(links, SameSite) \o important_pages

\* lines 584-601: the list pages_to_check, and the set made of it that the
\* loop iterates over
NavLinks(links) ==
    /\ crawl.pc = "nav_links"
    /\ crawl' = [crawl EXCEPT
                   !.pc = "pages",
                   !.pages_to_check = CandidateList(links),
                   !.to_check = Range(CandidateList(links)),
                   !.pages_checked = 1]
    /\ UNCHANGED <<sched_vars, pure_vars, current_settings, crawl_row>>

\* line 584 raises: `except Exception: pass` (lines 621-622)
NavLinksRaises ==
    /\ crawl.pc = "nav_links"
    /\ crawl' = [crawl EXCEPT !.pc = "close"]
    /\ UNCHANGED <<sched_vars, pure_vars, current_settings, crawl_row>>

\* line 602: the loop over the candidates goes on
MorePages ==
    /\ crawl.to_check # {}
    /\ crawl.pages_checked < current_settings.max_pages_per_site

\* lines 601-616: one additional page, in the iteration order of the set
AdditionalPage(u, page) ==
    /\ crawl.pc = "pages"
    /\ MorePages
    /\ u \in crawl.to_check
    /\ crawl' = [crawl EXCEPT
                   !.all_results = MergeAdditional(crawl.all_results, page),
                   !.to_check = crawl.to_check \ {u},
                   !.pages_checked = crawl.pages_checked + 1,
                   !.visited = Append(crawl.visited, u)]
    /\ UNCHANGED <<sched_vars, pure_vars, current_settings, crawl_row>>

\* the loop of line 601 ends
PagesDone ==
    /\ crawl.pc = "pages"
    /\ ~MorePages
    /\ crawl' = [crawl EXCEPT !.pc = "close"]
    /\ UNCHANGED <<sched_vars, pure_vars, current_settings, crawl_row>>

\* lines 627-638 and 689-703: the context is closed, analyze_website returns
\* and the task writes the row
CloseContext ==
    /\ crawl.pc = "close"
    /\ crawl' = [crawl EXCEPT !.pc = "written"]
    /\ crawl_row' = RowOnReturn(crawl.all_results)
    /\ UNCHANGED <<sched_vars, pure_vars, current_settings>>

\* line 628 raises in the finally block: the exception reaches the task
CloseContextRaises ==
    /\ crawl.pc = "close"
    /\ crawl' = [crawl EXCEPT !.pc = "written"]
    /\ crawl_row' = RowOnRaise(crawl_row)
    /\ UNCHANGED <<sched_vars, pure_vars, current_settings>>

\* the task of row 1 of a one-row batch has its slot and calls
\* analyze_website, under the settings of any of the three phases
CrawlInit ==
    /\ pc = "gather"
    /\ \E s \in 1..3 :
          /\ stage = s
          /\ stats_phase = PhaseOf(s)[1]
          /\ current_settings = PhaseOf(s)[2]
          /\ semaphore = PhaseOf(s)[2].concurrency - 1
    /\ url_column = TRUE
    /\ url = [r \in Rows |-> "valid"]
    /\ df = [r \in Rows |->
               [analysis_status |-> IF r = 1 THEN NA ELSE COMPLETED,
                has_chatbot |-> IF r = 1 THEN NA ELSE "No"]]
    /\ unprocessed = <<1>>
    /\ pool = {}
    /\ batch_indices = <<1>>
    /\ tasks = [r \in Rows |-> IF r = 1 THEN "running" ELSE "none"]
    /\ disk = NoFile
    /\ checkpointed = FALSE
    /\ attempts = [r \in Rows |-> [s \in 1..3 |-> "none"]]
    /\ crawl = [IdleCrawl EXCEPT !.pc = "new_context"]
    /\ crawl_row = FreshRow
    /\ exit = "none"
    /\ backup = [name |-> "initial", completed |-> NumRows - 1, parity |-> 1]
    /\ previous = NoRun
    /\ stats = NoStats
    /\ sleep_delay = 0
    /\ OnlyRuns("continuous_process")

CrawlNext ==
    \/ NewContext
    \/ NewContextRaises
    \/ \E page \in PageOutcomes : MainPage(page)
    \/ \E links \in NavLinkLists : NavLinks(links)
    \/ NavLinksRaises
    \/ \E u \in LinkTargets \cup Range(important_pages),
          page \in PageOutcomes :
          AdditionalPage(u, page)
    \/ PagesDone
    \/ CloseContext
    \/ CloseContextRaises

CrawlSpec == CrawlInit /\ [][CrawlNext]_vars

\* ------------------------------------------- aggregation across pages
\* The page results of one crawl, in the order analyze_page returned them
\* (the root first), are folded into all_results as analyze_website does.
PageSequences == UNION {[1..n -> PageOutcomes] : n \in 1..MaxSitePages}

AggregateInit ==
    /\ BeforeRun
    /\ url_column = TRUE
    /\ url = [r \in Rows |-> "valid"]
    /\ OnlyRuns("aggregate")
    /\ \E pages \in PageSequences :
          site_pages = [pages |-> pages, folded |-> 0,
                        all_results |-> EmptyResults]

\* lines 572-579: the result of the main page
FoldMainPage ==
    /\ site_pages.folded = 0
    /\ site_pages' =
          [site_pages EXCEPT
             !.folded = 1,
             !.all_results = MergeMain(site_pages.all_results,
                                       site_pages.pages[1])]
    /\ UNCHANGED <<sched_vars, current_settings, crawl, crawl_row, load_frame,
                   page_content, analyzer, network_analysis,
                   chatbot_companies>>

\* lines 605-616: the result of the next additional page; after a page that
\* errored the loop goes on with the page after it
FoldAdditionalPage ==
    /\ site_pages.folded >= 1
    /\ site_pages.folded < Len(site_pages.pages)
    /\ site_pages' =
          [site_pages EXCEPT
             !.folded = site_pages.folded + 1,
             !.all_results =
                 MergeAdditional(site_pages.all_results,
                                 site_pages.pages[site_pages.folded + 1])]
    /\ UNCHANGED <<sched_vars, current_settings, crawl, crawl_row, load_frame,
                   page_content, analyzer, network_analysis,
                   chatbot_companies>>

AggregateNext == FoldMainPage \/ FoldAdditionalPage

AggregateSpec == AggregateInit /\ [][AggregateNext]_vars

\* ------------------------------------------------- the three settings
\* The dicts __init__ builds, with the values of the source (the scheduler
\* above runs with scaled-down concurrency and batch sizes).
SettingsWithEqualRetries(ram_gb) ==
    [aggressive_settings |->
         [concurrency |-> 20, batch_size |-> 30, timeout |-> 45000,
          delay_between_batches |-> 45, max_pages_per_site |-> 3],
     conservative_settings |->
         [concurrency |-> 5, batch_size |-> 20, timeout |-> 75000,
          delay_between_batches |-> 90, max_pages_per_site |-> 5],
     patient_settings |->
         [concurrency |-> 5, batch_size |-> 10, timeout |-> 120000,
          delay_between_batches |-> 120, max_pages_per_site |-> 7]]

\* __init__ lines 25-65
SettingsFor(ram_gb) ==
    [aggressive_settings |->
         IF ram_gb >= 32
         THEN [concurrency |-> 45, batch_size |-> 80, timeout |-> 45000,
               delay_between_batches |-> 30, max_pages_per_site |-> 3]
         ELSE [concurrency |-> 20, batch_size |-> 30, timeout |-> 45000,
               delay_between_batches |-> 45, max_pages_per_site |-> 3],
     conservative_settings |->
         IF ram_gb >= 32
         THEN [concurrency |-> 20, batch_size |-> 40, timeout |-> 75000,
               delay_between_batches |-> 60, max_pages_per_site |-> 5]
         ELSE [concurrency |-> 10, batch_size |-> 20, timeout |-> 75000,
               delay_between_batches |-> 90, max_pages_per_site |-> 5],
     patient_settings |->
         [concurrency |-> 5, batch_size |-> 10, timeout |-> 120000,
          delay_between_batches |-> 120, max_pages_per_site |-> 7]]

\* main lines 944-947: ram_gb is detected or typed in
RamSettings == 0..MaxRamGb

NoSettings ==
    [concurrency |-> 0, batch_size |-> 0, timeout |-> 0,
     delay_between_batches |-> 0, max_pages_per_site |-> 0]

ConfigInit ==
    /\ BeforeRun
    /\ url_column = TRUE
    /\ url = [r \in Rows |-> "valid"]
    /\ OnlyRuns("__init__")
    /\ \E ram_gb \in RamSettings :
          analyzer = [ram_gb |-> ram_gb, phase |-> "none",
                      aggressive_settings |-> NoSettings,
                      conservative_settings |-> NoSettings,
                      patient_settings |-> NoSettings,
                      current_settings |-> NoSettings]

\* __init__ (lines 25-68)
Construct ==
    /\ analyzer.phase = "none"
    /\ analyzer' =
          [analyzer EXCEPT
             !.phase = "constructed",
             !.aggressive_settings =
                 SettingsFor(analyzer.ram_gb).aggressive_settings,
             !.conservative_settings =
                 SettingsFor(analyzer.ram_gb).conservative_settings,
             !.patient_settings = SettingsFor(analyzer.ram_gb).patient_settings,
             !.current_settings =
                 SettingsFor(analyzer.ram_gb).aggressive_settings]
    /\ UNCHANGED <<sched_vars, current_settings, crawl, crawl_row, load_frame,
                   page_content, site_pages, network_analysis,
                   chatbot_companies>>

\* lines 764-765, 795-796, 824-825: a phase begins with a copy of its dict
\* as current_settings
EnterPhase(from, to, settings) ==
    /\ analyzer.phase \in from
    /\ analyzer' = [analyzer EXCEPT !.phase = to,
                                    !.current_settings = settings]
    /\ UNCHANGED <<sched_vars, current_settings, crawl, crawl_row, load_frame,
                   page_content, site_pages, network_analysis,
                   chatbot_companies>>

EnterAggressive ==
    EnterPhase({"constructed"}, "Aggressive Processing",
               analyzer.aggressive_settings)

EnterConservative ==
    EnterPhase({"Aggressive Processing"}, "Conservative Retry",
               analyzer.conservative_settings)

EnterPatient ==
    EnterPhase({"Conservative Retry"}, "Patient Processing",
               analyzer.patient_settings)

ConfigNext ==
    \/ Construct
    \/ EnterAggressive
    \/ EnterConservative
    \/ EnterPatient

ConfigSpec == ConfigInit /\ [][ConfigNext]_vars

\* ----------------------------------------------- _analyze_network_requests
\* A request URL is known by its netloc and by the keywords of the lists
\* below that are substrings of it.
RequestUrls ==
    {[netloc |-> "widget.intercom.io", words |-> {"widget", "intercom"}],
     [netloc |-> "js.stripe.com", words |-> {"stripe"}],
     [netloc |-> "www.viator.com", words |-> {"viator"}],
     [netloc |-> "cdn.example.com", words |-> {}]}

\* line 535
chatbot_domains ==
    {"chat", "support", "widget", "messenger", "livechat", "zendesk",
     "intercom", "drift", "crisp", "tidio", "tawk"}

\* line 542
booking_domains ==
    {"booking", "reserv", "ticket", "payment", "checkout", "stripe",
     "paypal", "square"}

\* f'network_{domain}' (lines 540, 547), as the parts around the '_'
NetworkTag(domain) == <<"network", domain>>

\* item.split('_')[0]
SplitFirst(item) == item[1]

\* lines 537-540 and 544-547: one request against one category
AppendService(services, request, keywords) ==
    IF request.words \cap keywords # {}
           /\ request.netloc \notin {SplitFirst(services[i]) :
                                        i \in 1..Len(services)}
    THEN Append(services, NetworkTag(request.netloc))
    ELSE services

RequestLists == UNION {[1..n -> RequestUrls] : n \in 0..MaxRequests}

NetworkInit ==
    /\ BeforeRun
    /\ url_column = TRUE
    /\ url = [r \in Rows |-> "valid"]
    /\ OnlyRuns("_analyze_network_requests")
    /\ \E requests \in RequestLists :
          network_analysis =
              [network_requests |-> requests, seen |-> 0,
               chatbot_services |-> <<>>, booking_services |-> <<>>,
               ota_services |-> <<>>]

\* lines 532-547: one iteration of the loop over network_requests
AnalyzeRequest ==
    /\ network_analysis.seen < Len(network_analysis.network_requests)
    /\ LET request ==
              network_analysis.network_requests[network_analysis.seen + 1]
       IN  network_analysis' =
              [network_analysis EXCEPT
                 !.seen = network_analysis.seen + 1,
                 !.chatbot_services =
                     AppendService(network_analysis.chatbot_services,
                                   request, chatbot_domains),
                 !.booking_services =
                     AppendService(network_analysis.booking_services,
                                   request, booking_domains)]
    /\ UNCHANGED <<sched_vars, current_settings, crawl, crawl_row, load_frame,
                   page_content, site_pages, analyzer, chatbot_companies>>

NetworkSpec == NetworkInit /\ [][AnalyzeRequest]_vars

\* ----------------------------------------------- process_chatbot_companies
\* chatbot_classifier.py: the rows flagged as having a chatbot are
\* classified in batches.  Of a row the model keeps its URL cell and its
\* chatbot_type: unset, a classification, or 'error'.
ClassifierRow ==
    {[url |-> u, chatbot_type |-> t] :
        u \in {"valid", "missing"}, t \in {NA, "classified"}}

\* ChatbotClassifier.clean_url (lines 315-322): None for a missing cell,
\* else the text with a scheme and without a trailing slash
classifier_clean_url(u) == IF u = "missing" THEN None ELSE "https"

\* chatbot_companies[chatbot_companies['chatbot_type'].isna()].index
Unclassified(rows) == {r \in Rows : rows[r].chatbot_type = NA}

ClassifierInit ==
    /\ BeforeRun
    /\ url_column = TRUE
    /\ url = [r \in Rows |-> "valid"]
    /\ OnlyRuns("process_chatbot_companies")
    /\ \E rows \in [Rows -> ClassifierRow] :
          chatbot_companies = [pc |-> "start", rows |-> rows,
                               unprocessed |-> <<>>, tasks |-> {}]

ClassifierUnchanged ==
    UNCHANGED <<sched_vars, current_settings, crawl, crawl_row, load_frame,
                page_content, site_pages, analyzer, network_analysis>>

\* lines 264-267: the first unprocessed list, the browser is launched
ClassifierStart ==
    /\ chatbot_companies.pc = "start"
    /\ chatbot_companies' =
          [chatbot_companies EXCEPT
             !.pc = "loop",
             !.unprocessed = IndexList(Unclassified(chatbot_companies.rows))]
    /\ ClassifierUnchanged

\* lines 270-282: the next batch; a task for every row of it with a URL
ClassifierBatchTasks ==
    {r \in Range(Take(chatbot_companies.unprocessed, ClassifierBatch)) :
        classifier_clean_url(chatbot_companies.rows[r].url) # None}

ClassifierDispatch ==
    /\ chatbot_companies.pc = "loop"
    /\ chatbot_companies.unprocessed # <<>>
    /\ chatbot_companies' =
          [chatbot_companies EXCEPT !.pc = "gather",
                                    !.tasks = ClassifierBatchTasks]
    /\ ClassifierUnchanged

\* lines 242-262: a task ends; what it writes to its row is a
\* classification (245-253), or 'error' when the classification raised
\* (259-261)
ClassifyTask(r, outcome) ==
    /\ chatbot_companies.pc = "gather"
    /\ r \in chatbot_companies.tasks
    /\ chatbot_companies' =
          [chatbot_companies EXCEPT
             !.tasks = chatbot_companies.tasks \ {r},
             !.rows[r].chatbot_type = outcome]
    /\ ClassifierUnchanged

\* lines 280-291: all tasks of the batch are done (or there was none), the
\* table is saved, the unprocessed list is recomputed; with rows left the
\* loop sleeps five seconds
ClassifierSave ==
    /\ chatbot_companies.pc = "gather"
    /\ chatbot_companies.tasks = {}
    /\ chatbot_companies' =
          [chatbot_companies EXCEPT
             !.unprocessed = IndexList(Unclassified(chatbot_companies.rows)),
             !.pc = IF Unclassified(chatbot_companies.rows) # {}
                    THEN "sleep" ELSE "loop"]
    /\ ClassifierUnchanged

\* line 285 raises: the handler of line 298 prints the error and the
\* function returns
ClassifierSaveRaises ==
    /\ chatbot_companies.pc = "gather"
    /\ chatbot_companies.tasks = {}
    /\ chatbot_companies' = [chatbot_companies EXCEPT !.pc = "raised"]
    /\ ClassifierUnchanged

\* line 291: the sleep is over
ClassifierWake ==
    /\ chatbot_companies.pc = "sleep"
    /\ chatbot_companies' = [chatbot_companies EXCEPT !.pc = "loop"]
    /\ ClassifierUnchanged

\* lines 293-296: the loop has ended, the browser is closed, the report
ClassifierFinish ==
    /\ chatbot_companies.pc = "loop"
    /\ chatbot_companies.unprocessed = <<>>
    /\ chatbot_companies' = [chatbot_companies EXCEPT !.pc = "done"]
    /\ ClassifierUnchanged

ClassifierNext ==
    \/ ClassifierStart
    \/ ClassifierDispatch
    \/ \E r \in Rows, outcome \in {"classified", "error"} :
          ClassifyTask(r, outcome)
    \/ ClassifierSave
    \/ ClassifierSaveRaises
    \/ ClassifierWake
    \/ ClassifierFinish

ClassifierSpec == ClassifierInit /\ [][ClassifierNext]_vars

\* the event loop runs whatever is ready
ClassifierFairSpec == ClassifierSpec /\ WF_vars(ClassifierNext)

\* --------------------------------------------------- analyze_page_content
\* The content of a page is the set of these texts that occur in it; they
\* hold no markup, so of the behavioural tiers (lines 254-351) only the
\* chat phrases of _detect_unknown_chatbot can add a tag for them.
Vocabulary ==
    {"fareharbor", "viator", "viator.com", "tripadvisor", "zendesk",
     "book now", "booking", "start chat", "live chat", "chat now"}

\* the patterns of the tables below that are substrings of a text
PatternsIn(text) ==
    IF text = "viator.com" THEN {"viator.com", "viator"} ELSE {text}

\* `pattern in combined_content`
Occurs(pattern, content) == \E text \in content : pattern \in PatternsIn(text)

\* lines 71-125, the providers the Vocabulary can match
chatbot_patterns == [zendesk |-> {"zendesk", "zopim", "zdchat"}]

booking_patterns ==
    [fareharbor |-> {"fareharbor.com", "fareharbor", "fh-button", "fh-widget"},
     viator |-> {"viator.com", "viator"}]

ota_patterns ==
    [viator |-> {"viator.com", "tripadvisor"},
     tripadvisor |-> {"tripadvisor.com", "tripadvisor"},
     booking |-> {"booking.com", "booking"}]

\* lines 200-206, 216-221, 228-233: the providers with a matching pattern
KnownPatterns(table, content) ==
    {provider \in DOMAIN table :
        \E pattern \in table[provider] : Occurs(pattern, content)}

\* lines 241-242
online_booking_keywords ==
    {"book online", "book now", "reserve now", "buy tickets", "purchase"}

\* lines 275-280, the phrases of the Vocabulary
chat_text_indicators == {"start chat", "live chat", "chat now"}

\* line 284: `score += 2` for every phrase found
ChatTextScore == 2

\* lines 288 and 290: `score >= 5`
LikelyChatbotScore == 5

\* line 285: f"chat_text: '{indicator}'"
ChatTextEvidence(indicator) ==
    IF indicator = "start chat" THEN "chat_text: 'start chat'"
    ELSE IF indicator = "live chat" THEN "chat_text: 'live chat'"
    ELSE "chat_text: 'chat now'"

\* _detect_unknown_chatbot (lines 254-291); the markup patterns of lines
\* 259-272 match none of the texts
_detect_unknown_chatbot(content) ==
    LET found == {i \in chat_text_indicators : Occurs(i, content)}
        score == ChatTextScore * Cardinality(found)
    IN  [likely_chatbot |-> score >= LikelyChatbotScore,
         confidence_score |-> score,
         evidence |-> IF score >= LikelyChatbotScore
                      THEN {ChatTextEvidence(i) : i \in found} ELSE {}]

\* lines 209-213: the behavioural tier runs `if not results['has_chatbot']`
BehaviouralChatbot(content) ==
    IF KnownPatterns(chatbot_patterns, content) # {}
    THEN [likely_chatbot |-> FALSE, evidence |-> {}]
    ELSE [likely_chatbot |-> _detect_unknown_chatbot(content).likely_chatbot,
          evidence |-> _detect_unknown_chatbot(content).evidence]

\* analyze_page_content (lines 185-252)
analyze_page_content(content) ==
    [has_chatbot |-> \/ KnownPatterns(chatbot_patterns, content) # {}
                     \/ BehaviouralChatbot(content).likely_chatbot,
     chatbot_types |-> KnownPatterns(chatbot_patterns, content)
                           \cup BehaviouralChatbot(content).evidence,
     booking_technology |-> KnownPatterns(booking_patterns, content),
     ota_dependencies |-> KnownPatterns(ota_patterns, content),
     has_online_booking |->
         \E keyword \in online_booking_keywords : Occurs(keyword, content)]

ExtractInit ==
    /\ BeforeRun
    /\ url_column = TRUE
    /\ url = [r \in Rows |-> "valid"]
    /\ OnlyRuns("analyze_page_content")
    /\ \E content \in SUBSET Vocabulary :
          page_content = [content |-> content, analyzed |-> FALSE,
                          results |-> analyze_page_content({}),
                          prospect_evaluation |-> NA]

\* a page is analysed (lines 185-252) and the result is classified as the
\* task does for its row (line 696)
AnalyzePage ==
    /\ ~page_content.analyzed
    /\ page_content' =
          [page_content EXCEPT
             !.analyzed = TRUE,
             !.results = analyze_page_content(page_content.content),
             !.prospect_evaluation =
                 _generate_prospect_evaluation(
                     analyze_page_content(page_content.content))]
    /\ UNCHANGED <<sched_vars, current_settings, crawl, crawl_row, load_frame,
                   site_pages, analyzer, network_analysis,
                   chatbot_companies>>

ExtractSpec == ExtractInit /\ [][AnalyzePage]_vars

\* ------------------------------------------------------------------ claims
Terminal == {COMPLETED, FAILED, INVALID_URL}

Active == {r \in Rows : tasks[r] \in {"waiting", "running"}}

\* C1: once continuous_process has finished its last phase (Done), every row
\* of the table has analysis_status COMPLETED, FAILED or INVALID_URL; no row
\* is left unset or in progress.
C1_TerminalStatuses ==
    pc = "done" =>
        /\ \A r \in Rows : df[r].analysis_status \in Terminal
        /\ Active = {}

C1_Witness ==
    /\ pc = "done"
    /\ stage = 3
    /\ \E r \in Rows : attempts[r][3] = "raised" /\ df[r].analysis_status = FAILED
    /\ \E r \in Rows : attempts[r][2] = "returned"
    /\ \E r \in Rows : df[r].analysis_status = INVALID_URL

\* C2: after the run, a row whose crawl failed under the Aggressive settings
\* and succeeded under the ConservativeRetry settings is COMPLETED, a row
\* whose crawl failed in all three phases is FAILED, and no row is unset.
C2_PhaseRetry ==
    pc = "done" =>
        \A r \in Rows :
            /\ (attempts[r][1] = "raised" /\ attempts[r][2] = "returned")
                  => df[r].analysis_status = COMPLETED
            /\ (\A s \in 1..3 : attempts[r][s] = "raised")
                  => df[r].analysis_status = FAILED
            /\ df[r].analysis_status # NA

C2_Witness ==
    /\ pc = "done"
    /\ \E r \in Rows : attempts[r][1] = "raised" /\ attempts[r][2] = "returned"
    /\ \E r \in Rows : \A s \in 1..3 : attempts[r][s] = "raised"

\* C3: for every input table, also one without a recognised URL column, and
\* every pattern of crawl outcomes, continuous_process eventually reaches
\* Done.
C3_RunEnds == <>(pc = "done")

\* C4: the number of crawls in flight never exceeds the concurrency of the
\* current settings, also when the batch holds more tasks than that.
C4_ConcurrencyBound == Cardinality(InFlight) <= current_settings.concurrency

C4_Witness ==
    /\ pc = "gather"
    /\ Cardinality(InFlight) = current_settings.concurrency
    /\ Waiting # {}

\* C5: a task that acquired a slot gives it back when its crawl returns and
\* when it raises: the slots not held by a crawl in flight are free, after
\* the join all slots are free, and every waiting task of the batch gets to
\* run and finish.
C5_SlotsReleased ==
    /\ [](pc \in {"gather", "checkpoint"} =>
            semaphore + Cardinality(InFlight) = current_settings.concurrency)
    /\ [](pc = "checkpoint" => semaphore = current_settings.concurrency)
    /\ \A r \in Rows : (tasks[r] = "waiting") ~> (tasks[r] = "done")

C5_Witness ==
    /\ pc = "checkpoint"
    /\ semaphore = current_settings.concurrency
    /\ Cardinality(Dispatched(batch_indices)) > current_settings.concurrency
    /\ \E r \in Range(batch_indices) : attempts[r][stage] = "raised"
    /\ \E r \in Range(batch_indices) : attempts[r][stage] = "returned"

\* C6: process_batch passes its join only when every dispatched crawl of the
\* batch has terminated, and each of them, whether or not a sibling raised,
\* has run in this batch and has its own outcome in its row.
C6_BatchJoin ==
    pc = "checkpoint" =>
        \A r \in Dispatched(batch_indices) :
            /\ tasks[r] = "done"
            /\ attempts[r][stage] \in {"returned", "raised"}
            /\ df[r].analysis_status =
                  IF attempts[r][stage] = "returned" THEN COMPLETED ELSE FAILED

C6_Witness ==
    /\ pc = "checkpoint"
    /\ \E r, q \in Dispatched(batch_indices) :
          /\ attempts[r][stage] = "raised" /\ df[r].analysis_status = FAILED
          /\ attempts[q][stage] = "returned" /\ df[q].analysis_status = COMPLETED

\* C7: the table is written for a batch only after every crawl of the batch
\* has terminated, no crawl task is alive during the write, and the pool for
\* the next batch is computed only after the batch's checkpoint is written.
C7_CheckpointOrdering ==
    /\ pc = "checkpoint" => Active = {}
    /\ pc = "recompute" => checkpointed

\* C8: if the fetch of the root page errors, no further page of the site is
\* attempted, the row's status becomes FAILED, its pages_analyzed is 0 (or
\* unset), and no chatbot, booking or OTA tag is recorded for the row.
C8_RootFailureFailsSite ==
    (crawl.pc = "written" /\ crawl.root_error) =>
        /\ crawl.visited = <<"root">>
        /\ crawl_row.analysis_status = FAILED
        /\ crawl_row.pages_analyzed <= 0
        /\ crawl_row.chatbot_types \subseteq {"None detected"}
        /\ crawl_row.booking_technology \subseteq {"None detected"}
        /\ crawl_row.ota_dependencies \subseteq {"None detected"}

\* C9: a row that is COMPLETED or INVALID_URL keeps its status; a FAILED row
\* changes only to unset, and only in the step that starts a retry phase,
\* when no batch is running.
C9_StatusMonotone ==
    [][\A r \in Rows :
          /\ df[r].analysis_status \in {COMPLETED, INVALID_URL}
                => df'[r].analysis_status = df[r].analysis_status
          /\ (df[r].analysis_status = FAILED /\ df'[r].analysis_status # FAILED)
                => /\ df'[r].analysis_status = NA
                   /\ pc = "loop" /\ Active = {}
                   /\ stage' = stage + 1]_vars

C9_Witness ==
    /\ stage = 2
    /\ pc = "loop"
    /\ \E r \in pool : df[r].analysis_status = NA /\ attempts[r][1] = "raised"
    /\ \E r \in Rows : df[r].analysis_status = COMPLETED /\ attempts[r][1] = "returned"
    /\ \E r \in Rows : df[r].analysis_status = INVALID_URL

PhaseRank == IF pc = "done" THEN 4 ELSE stage

\* C10: the scheduler moves only forward through Aggressive,
\* ConservativeRetry, PatientRetry, Done, one retry phase at a time; it
\* switches the settings and resets rows only when it starts a phase, and
\* then no row of the preceding pool is unset or has a live task.
C10_PhaseSequencing ==
    [][/\ PhaseRank' >= PhaseRank
       /\ stage' \in {stage, stage + 1}
       /\ <<stats_phase', current_settings'>> = PhaseOf(stage')
       /\ (stage' # stage \/ (pc' = "done" /\ pc # "done"))
             => (StillUnprocessed = {} /\ Active = {} /\ pc = "loop")]_vars

C10_Witness ==
    /\ pc = "done"
    /\ stage = 3
    /\ current_settings = patient_settings
    /\ \E r \in Rows : attempts[r][1] = "raised" /\ attempts[r][2] = "raised"
                       /\ attempts[r][3] = "returned"

\* C11: a run over a table in which every row is COMPLETED dispatches no
\* crawl in any of the three phases (no batch is formed, no retry phase is
\* started) and leaves the status and the results of every row as loaded.
C11_ResumeIdempotent ==
    (\A r \in Rows : df[r].analysis_status = COMPLETED) =>
        [](/\ \A r \in Rows :
                /\ tasks[r] = "none"
                /\ \A s \in 1..3 : attempts[r][s] = "none"
                /\ df[r] = [analysis_status |-> COMPLETED, has_chatbot |-> "No"]
           /\ stage = 1
           /\ batch_indices = <<>>)

C11_Witness ==
    /\ pc = "done"
    /\ exit = "returned"
    /\ \A r \in Rows :
          /\ df[r].analysis_status = COMPLETED
          /\ \A s \in 1..3 : attempts[r][s] = "none"

\* C13: when the checkpoint write of a batch fails, the exception leaves
\* process_batch and continuous_process: the run is over at that batch, no
\* further batch is formed, no row is written and no later phase is started.
C13_PersistenceErrorFatal ==
    [][/\ exit' = "PersistenceError" => pc' = "aborted"
       /\ exit = "PersistenceError" =>
             UNCHANGED <<pc, stage, batch_indices, tasks, df, disk>>]_vars

C13_Witness ==
    /\ exit = "PersistenceError"
    /\ pc = "aborted"
    /\ stage = 1
    /\ \E r \in Rows : df[r].analysis_status = NA
    /\ \E r \in Rows : df[r].analysis_status = FAILED

\* C14: a failure of a single row (its crawl raised, its URL is missing) is
\* recorded in the row as FAILED or INVALID_URL, and the run ends with an
\* error only when a checkpoint write failed.
C14_OnlyPersistenceAborts ==
    /\ \A r \in Rows :
          (\E s \in 1..3 : attempts[r][s] = "raised")
              => df[r].analysis_status \in {FAILED, NA, COMPLETED}
    /\ exit \notin {"none", "returned"} => exit = "PersistenceError"

\* C18: a snapshot is taken at run start before the first crawl, and after
\* a batch a snapshot is taken exactly when the number of COMPLETED rows has
\* grown by batch_size * 5 since the last snapshot, in every phase, and not
\* when no row was completed since the last snapshot.
C18_Backups ==
    [][/\ Active' # {} => backup'.name # None
       /\ (pc \in {"recompute", "sleep"} /\ pc' = "loop") =>
             (backup'.parity # backup.parity
                <=> NumCompleted - backup.completed
                      >= current_settings.batch_size * BackupBatches)]_vars

\* a crawl was dispatched for row r in the running run
Crawled(r) == \E s \in 1..3 : attempts[r][s] # "none"

C15_InvalidUrlNeverCrawled ==
    \A r \in Rows :
        (url_column /\ url[r] \in {"missing", "unparseable"}) =>
            /\ tasks[r] = "none"
            /\ ~Crawled(r)
            /\ r \notin pool
            /\ (r \in Range(batch_indices) /\ pc # "aborted")
                  => df[r].analysis_status = INVALID_URL

\* a row that was still FAILED when PatientRetry of the run before finished
StillFailedBefore(r) ==
    /\ previous # NoRun
    /\ previous.ended \in {"returned", "ZeroDivisionError"}
    /\ previous.rows[r].exhausted
    /\ previous.rows[r].analysis_status = FAILED

\* C16 as stated: once PatientRetry has finished, a row still FAILED stays
\* FAILED and no crawl is dispatched for it, in the rest of that run and in
\* a later run over the checkpointed table.
C16_FailedIsFinal ==
    /\ \A r \in Rows :
          (pc = "done" /\ attempts[r][3] = "raised")
              => (df[r].analysis_status = FAILED /\ tasks[r] = "none")
    /\ \A r \in Rows :
          StillFailedBefore(r)
              => (df[r].analysis_status = FAILED /\ tasks[r] = "none"
                    /\ ~Crawled(r))

\* C16, amended: once PatientRetry has finished, a row still FAILED stays
\* FAILED with no crawl for the rest of that run; a later run over the
\* checkpointed table leaves it out of its Aggressive pool and retries it
\* in its ConservativeRetry phase.
C16_FailedIsFinalAmended ==
    /\ \A r \in Rows :
          (pc = "done" /\ attempts[r][3] = "raised")
              => (df[r].analysis_status = FAILED /\ tasks[r] = "none")
    /\ \A r \in Rows :
          StillFailedBefore(r)
              => /\ attempts[r][1] = "none"
                 /\ stage = 1 => (df[r].analysis_status = FAILED
                                    /\ tasks[r] = "none")
                 /\ pc = "done" => attempts[r][2] # "none"

C16_Witness ==
    /\ \E r \in Rows : StillFailedBefore(r) /\ attempts[r][2] = "returned"
    /\ pc = "done"

\* C17: loading a file gives the table every column of the file with the
\* values the file holds in every row (an empty cell reads as unset), result
\* and status columns of an earlier run included, and adds exactly the
\* analysis columns the file lacks, unset in every row.
C17_LoadPreserves ==
    load_frame.loaded =>
        /\ DOMAIN load_frame.df = DOMAIN load_frame.file \cup analysis_columns
        /\ \A c \in DOMAIN load_frame.file : \A r \in Rows :
              load_frame.df[c][r] =
                  IF load_frame.file[c][r] = "" THEN NA
                  ELSE load_frame.file[c][r]
        /\ \A c \in analysis_columns \ DOMAIN load_frame.file :
              \A r \in Rows : load_frame.df[c][r] = NA

C17_Witness ==
    /\ load_frame.loaded
    /\ DOMAIN load_frame.file = {"Website URL", "analysis_status"}
    /\ \E r \in Rows : load_frame.df["analysis_status"][r] = "text"
    /\ \E r \in Rows : load_frame.df["analysis_status"][r] = NA
    /\ \A r \in Rows : load_frame.df["has_chatbot"][r] = NA

Tiers ==
    {"HIGH-VALUE PROSPECT", "GOOD PROSPECT", "MEDIUM PROSPECT",
     "NOT A PROSPECT"}

\* the classifier's three inputs, read off the analysis a task classifies
ChatbotFound == crawl.all_results.has_chatbot
BookingFound ==
    crawl.all_results.booking_technology # {}
        \/ crawl.all_results.has_online_booking
OtaFound == crawl.all_results.ota_dependencies # {}

\* C19: for every combination of chatbot, booking (a booking technology or
\* the online-booking flag) and OTA in the analysis, the evaluation written
\* to the row is one of the four tiers: HIGH-VALUE iff no chatbot, booking
\* and OTA; GOOD iff no chatbot, booking, no OTA; MEDIUM iff no chatbot and
\* no booking; NOT A PROSPECT iff a chatbot.
C19_ClassifierTotal ==
    (crawl.pc = "written" /\ crawl_row.analysis_status = COMPLETED) =>
        /\ crawl_row.prospect_evaluation \in Tiers
        /\ crawl_row.prospect_evaluation = "HIGH-VALUE PROSPECT"
              <=> (~ChatbotFound /\ BookingFound /\ OtaFound)
        /\ crawl_row.prospect_evaluation = "GOOD PROSPECT"
              <=> (~ChatbotFound /\ BookingFound /\ ~OtaFound)
        /\ crawl_row.prospect_evaluation = "MEDIUM PROSPECT"
              <=> (~ChatbotFound /\ ~BookingFound)
        /\ crawl_row.prospect_evaluation = "NOT A PROSPECT" <=> ChatbotFound

C19_Witness ==
    /\ crawl.pc = "written"
    /\ crawl_row.prospect_evaluation = "HIGH-VALUE PROSPECT"
    /\ crawl.all_results.booking_technology = {}
    /\ crawl.all_results.has_online_booking

\* the texts of the Vocabulary that carry a chatbot or an OTA keyword
ChatbotTexts == {"zendesk"} \cup chat_text_indicators
OtaTexts == {"viator.com", "tripadvisor", "booking"}

\* C20: content with no chatbot signal that holds "fareharbor" and no OTA
\* keyword is extracted and classified as GOOD PROSPECT; the same content
\* with "viator" added is classified as HIGH-VALUE PROSPECT.
C20_ScenarioC ==
    (/\ page_content.analyzed
     /\ "fareharbor" \in page_content.content
     /\ page_content.content \cap (ChatbotTexts \cup OtaTexts) = {}) =>
        page_content.prospect_evaluation =
            IF "viator" \in page_content.content
            THEN "HIGH-VALUE PROSPECT" ELSE "GOOD PROSPECT"

\* C21: the tags of one detection tier stay in the output when another tier
\* fires as well: for every analysed page the providers of the
\* known-signature tiers and the evidence of the behavioural chatbot tier
\* (score at least 5) are all in the result, also when both chatbot tiers
\* match, and has_chatbot is the OR of the two chatbot tiers.
C21_TierMonotonicity ==
    page_content.analyzed =>
        LET content == page_content.content
            results == page_content.results
        IN  /\ KnownPatterns(chatbot_patterns, content)
                  \subseteq results.chatbot_types
            /\ _detect_unknown_chatbot(content).evidence
                  \subseteq results.chatbot_types
            /\ KnownPatterns(booking_patterns, content)
                  \subseteq results.booking_technology
            /\ KnownPatterns(ota_patterns, content)
                  \subseteq results.ota_dependencies
            /\ results.has_chatbot
                  <=> \/ KnownPatterns(chatbot_patterns, content) # {}
                      \/ _detect_unknown_chatbot(content).likely_chatbot

\* position of the first occurrence of a page in the candidate list
FirstIndex(list, u) ==
    CHOOSE i \in 1..Len(list) :
        list[i] = u /\ \A j \in 1..(i - 1) : list[j] # u

\* the pages a crawl has visited after the root
SubPages == 2..Len(crawl.visited)

\* C22: after the root fetch a crawl visits at most max_pages_per_site - 1
\* additional pages; each of them is a same-site candidate, is not the root
\* and was not visited before in this crawl, and they are visited in the
\* order of the candidate list (navigation links first, then the path
\* guesses).
C22_SubPageVisiting ==
    /\ Cardinality(SubPages) <= current_settings.max_pages_per_site - 1
    /\ \A i \in SubPages :
          /\ crawl.visited[i] \in Range(crawl.pages_to_check)
          /\ SameSite(crawl.visited[i])
          /\ crawl.visited[i] # "root"
          /\ \A j \in SubPages :
                j < i =>
                    /\ crawl.visited[j] # crawl.visited[i]
                    /\ FirstIndex(crawl.pages_to_check, crawl.visited[j])
                          < FirstIndex(crawl.pages_to_check, crawl.visited[i])

\* the pages of the sequence that did not error
PagesWithoutError ==
    {i \in 1..Len(site_pages.pages) : ~site_pages.pages[i].error}

\* C23: when all page results of a crawl are folded, has_chatbot of the site
\* is true iff it is true on a page that did not error, each tag set is the
\* union of that tag set over the pages that did not error, the details are
\* the root page's, pages_analyzed is the number of pages that did not
\* error, and a page that errored adds nothing and does not end the fold.
C23_Aggregation ==
    site_pages.folded = Len(site_pages.pages) =>
        LET pages == site_pages.pages
            all == site_pages.all_results
        IN  /\ all.has_chatbot
                  <=> \E i \in PagesWithoutError : pages[i].has_chatbot
            /\ all.chatbot_types =
                  UNION {pages[i].chatbot_types : i \in PagesWithoutError}
            /\ all.booking_technology =
                  UNION {pages[i].booking_technology :
                            i \in PagesWithoutError}
            /\ all.ota_dependencies =
                  UNION {pages[i].ota_dependencies : i \in PagesWithoutError}
            /\ all.has_online_booking = pages[1].has_online_booking
            /\ all.pages_analyzed = Cardinality(PagesWithoutError)

C23_Witness ==
    /\ Len(site_pages.pages) = 3
    /\ site_pages.folded = 3
    /\ site_pages.pages[1].has_chatbot
    /\ site_pages.pages[2].error
    /\ ~site_pages.pages[3].error
    /\ ~site_pages.pages[3].has_chatbot
    /\ site_pages.pages[3].booking_technology # {}
    /\ site_pages.all_results.has_chatbot
    /\ site_pages.all_results.booking_technology # {}
    /\ site_pages.all_results.pages_analyzed = 2

\* C24: for every ram_gb, once the analyzer is constructed the concurrency
\* of patient_settings is below that of conservative_settings, which is
\* below that of aggressive_settings, the timeouts are ordered the other
\* way round, and no step of a run changes any of the three dicts.
C24_PhaseConfigOrdering ==
    /\ [](analyzer.phase # "none" =>
            /\ analyzer.patient_settings.concurrency
                  < analyzer.conservative_settings.concurrency
            /\ analyzer.conservative_settings.concurrency
                  < analyzer.aggressive_settings.concurrency
            /\ analyzer.patient_settings.timeout
                  > analyzer.conservative_settings.timeout
            /\ analyzer.conservative_settings.timeout
                  > analyzer.aggressive_settings.timeout)
    /\ [][analyzer.phase # "none" =>
            /\ analyzer'.aggressive_settings = analyzer.aggressive_settings
            /\ analyzer'.conservative_settings
                  = analyzer.conservative_settings
            /\ analyzer'.patient_settings = analyzer.patient_settings]_vars

C24_Witness ==
    /\ analyzer.ram_gb < 32
    /\ analyzer.phase = "Patient Processing"
    /\ analyzer.current_settings.concurrency = 5
    /\ analyzer.conservative_settings.concurrency = 10

\* a task of the batch writes its row in this step
TaskWrites(r) == tasks[r] = "running" /\ tasks'[r] = "done"

\* C25: a crawl task writes only the row it was dispatched for: in a step
\* of the join every row other than the one whose task ends keeps its
\* status and result, in the batch or not; and at any time the tasks are
\* those of the rows of the running batch, one per row.
C25_RowScopedWrites ==
    /\ [](/\ Active \subseteq Range(batch_indices)
          /\ \A i, j \in 1..Len(batch_indices) :
                batch_indices[i] = batch_indices[j] => i = j)
    /\ [][(pc = "gather" /\ pc' = "gather") =>
            \A r \in Rows : df'[r] # df[r] => TaskWrites(r)]_vars
    /\ [][\A r \in Rows :
            TaskWrites(r) => \A o \in Rows \ {r} : df'[o] = df[o]]_vars

C25_Witness ==
    /\ pc = "gather"
    /\ \E r, o \in Range(batch_indices) :
          /\ tasks[r] = "done"
          /\ df[r].analysis_status = FAILED
          /\ tasks[o] = "running"
          /\ df[o].analysis_status = NA
    /\ \E n \in Rows \ Range(batch_indices) : df[n].analysis_status = COMPLETED

\* delay_between_batches of the phase that runs
PhaseDelay ==
    IF stage = 1 THEN AggressiveDelay
    ELSE IF stage = 2 THEN ConservativeDelay ELSE PatientDelay

\* C27: in every phase, when a batch has been checkpointed and the pool is
\* recomputed, the loop sleeps for that phase's delay_between_batches iff
\* the pool is not empty, so not after the last batch of the phase; while
\* it sleeps no task exists, and the next batch is dispatched only after
\* the sleep is over.
C27_InterBatchThrottling ==
    /\ [][(pc = "recompute" /\ checkpointed) =>
            /\ pc' = "sleep" <=> unprocessed' # <<>>
            /\ pc' = "sleep" => sleep_delay' = PhaseDelay
            /\ pc' # "sleep" => sleep_delay' = 0]_vars
    /\ [](pc = "sleep" =>
            /\ Active = {}
            /\ sleep_delay = PhaseDelay
            /\ unprocessed # <<>>)
    /\ [][pc = "sleep" => (pc' = "loop" /\ tasks' = tasks /\ df' = df)]_vars
    /\ [][(\E r \in Rows : tasks[r] = "none" /\ tasks'[r] = "waiting") =>
            (pc = "loop" /\ sleep_delay = 0)]_vars

C27_Witness ==
    /\ pc = "sleep"
    /\ stage = 2
    /\ checkpointed
    /\ sleep_delay = ConservativeDelay
    /\ unprocessed # <<>>

\* the task of a row is created in this step
DispatchedNow(r) == tasks[r] # "waiting" /\ tasks'[r] = "waiting"

\* the status of a row in the file this run loaded, where a run before
\* this one wrote that file
LoadedFailed(r) ==
    previous # NoRun => previous.rows[r].analysis_status = FAILED

\* C28: within one run a row is dispatched to a crawl at most once in each
\* phase: when its task is created it has had no crawl in this phase, and
\* in a retry phase its crawl of the phase before had raised, or (in phase
\* 2) it had no crawl in this run and was loaded as FAILED.
C28_OneCrawlPerPhase ==
    [][\A r \in Rows :
         DispatchedNow(r) =>
            /\ attempts[r][stage] = "none"
            /\ stage > 1 =>
                  \/ attempts[r][stage - 1] = "raised"
                  \/ /\ stage = 2
                     /\ attempts[r][1] = "none"
                     /\ r \in pool
                     /\ LoadedFailed(r)]_vars

C28_Witness ==
    /\ previous # NoRun
    /\ stage = 2
    /\ \E r \in Rows :
          /\ tasks[r] = "waiting"
          /\ attempts[r][1] = "none"
          /\ previous.rows[r].analysis_status = FAILED
    /\ \E r \in Rows : tasks[r] = "waiting" /\ attempts[r][1] = "raised"

\* C29: after every batch stats['completed'] is the number of rows with
\* analysis_status COMPLETED and stats['failed'] the number with FAILED,
\* also with INVALID_URL rows in the table and with rows a retry phase has
\* reset to unset.
C29_CountersAgree ==
    (pc = "recompute" /\ checkpointed) =>
        /\ stats.completed = Cardinality(RowsWithStatus(COMPLETED))
        /\ stats.failed = Cardinality(RowsWithStatus(FAILED))

\* the OTA keywords of the network tier (enhanced_batch_analyzer.py, lines
\* 526-529); continuous_analyzer.py has no such list
ota_domains ==
    {"getyourguide", "viator", "tripadvisor", "expedia", "booking.com",
     "klook", "tiqets", "headout"}

\* the netlocs of the requests that hold a keyword of a category
RespondingDomains(keywords) ==
    {network_analysis.network_requests[i].netloc :
        i \in {j \in 1..Len(network_analysis.network_requests) :
                  network_analysis.network_requests[j].words \cap keywords
                      # {}}}

\* a list of tags holds the tag of each of the domains once, and no other
OneTagPerDomain(services, domains) ==
    /\ Range(services) = {NetworkTag(d) : d \in domains}
    /\ Len(services) = Cardinality(domains)

\* C26: when all request URLs of a page are analysed, each of the three
\* service lists (chatbot, booking, OTA) holds exactly one tag
\* network_<domain> for every distinct netloc with a request that matches a
\* keyword of that category, however many requests went to that netloc.
C26_NetworkDedup ==
    network_analysis.seen = Len(network_analysis.network_requests) =>
        /\ OneTagPerDomain(network_analysis.chatbot_services,
                           RespondingDomains(chatbot_domains))
        /\ OneTagPerDomain(network_analysis.booking_services,
                           RespondingDomains(booking_domains))
        /\ OneTagPerDomain(network_analysis.ota_services,
                           RespondingDomains(ota_domains))

\* C30: for every input table, also one with rows without a URL, the batch
\* loop of process_chatbot_companies ends (the function returns, or the
\* save raised), and when it returns no row is left without a
\* chatbot_type.
C30_ClassifierTerminates ==
    <>(\/ chatbot_companies.pc = "raised"
       \/ /\ chatbot_companies.pc = "done"
          /\ Unclassified(chatbot_companies.rows) = {})

TypeOK ==
    /\ pc \in {"start", "loop", "gather", "checkpoint", "recompute", "sleep",
               "done", "aborted", "crashed"}
    /\ stage \in 1..3
    /\ \A r \in Rows :
          df[r].analysis_status \in {NA, COMPLETED, FAILED, INVALID_URL}
    /\ semaphore \in 0..current_settings.concurrency
    /\ exit \in {"none", "returned", "PersistenceError", "BrowserError",
                 "ZeroDivisionError"}
    /\ exit \in {"returned", "ZeroDivisionError"} => pc = "done"
    /\ exit \in {"PersistenceError", "BrowserError"} => pc = "aborted"
    /\ backup.parity \in {0, 1}
    /\ backup.completed \in 0..NumRows
====
